---------------------------- MODULE Spec2Model ----------------------------
(***************************************************************************)
(* ControlNet annotators (src/annotator/__init__.py and                    *)
(* src/annotator/uniformer/__init__.py).                                   *)
(*                                                                         *)
(* An image is abstracted to its height and width; a detector instance to  *)
(* the number of the constructor run that made it.  The process state is   *)
(* the instance cache of rp.CachedInstances and the list of constructor    *)
(* runs (each one resolves the checkpoint and loads the weights).  Every   *)
(* finished call of an annotator function is appended to a log, which is   *)
(* what the properties below read.                                         *)
(*                                                                         *)
(* Python compiles a file whole, and src/annotator/__init__.py does not     *)
(* compile: line 111 ends the parameter list of run_uniformer in a bare     *)
(* star and line 154, inside run_annotator_demo, has an unmatched           *)
(* parenthesis.  So there are two specifications of calls:                  *)
(*   SpecPackage  the file as written, reached by importing the package:    *)
(*                the import raises SyntaxError, no function is bound,      *)
(*                nothing is constructed;                                   *)
(*   Spec, SpecPatch  the definitions that are Python (run_hed,             *)
(*                run_openpose, run_midas, run_midas_normals, the           *)
(*                decorator, UniformerDetector), each taken from its own    *)
(*                lines.  run_uniformer and run_annotator_demo have no      *)
(*                definition to take and are no step of these.              *)
(***************************************************************************)
EXTENDS Integers, Sequences, FiniteSets, TLC

VARIABLES
    instances,   \* rp.CachedInstances' cache: <<class, device>> -> instance
    inits,       \* the keys whose __init__ ran, in order (weights loaded)
    calls        \* log of the finished calls of annotator functions

vars == <<instances, inits, calls>>

----------------------------------------------------------------------------
(* Bounds of the model *)

\* image heights and widths range over 1..MaxDim
MaxDim == 70
\* patch sizes of the generic decorated function range over 1..MaxPatch
MaxPatch == 4
\* calls per behaviour of one process
MaxCalls == 3

(* Program constants *)

\* @_round_to_nearest_patch_size(32) on run_midas and run_midas_normals
MidasPatchSize == 32
\* the three default URLs of run_annotator_demo
DefaultImages == 3
\* rp.eta(12, ...): the tiles the demo collects per image
DemoTiles == 12

None == "None"
Devices == {"cuda:0", "cuda:1"}
DeviceArgs == Devices \cup {None}

Dims == 1..MaxDim
Images == [height : Dims, width : Dims]
\* stands for "no image": nothing was passed, or nothing was returned
NoImage == [height |-> -1, width |-> -1]
NoDims == <<>>
\* keyword arguments are a record; a keyword given as None is left out
NoKwargs == [k \in {} |-> TRUE]

----------------------------------------------------------------------------
(* Images *)

\* rp.get_image_dimensions: (height, width)
get_image_dimensions(image) == <<image.height, image.width>>

\* rp.cv_resize_image(image, (height, width)): OpenCV rejects an empty source
\* and an empty target size; the value NoImage stands for the raised cv2.error
cv_resize_image(image, size) ==
    IF image.height = 0 \/ image.width = 0 \/ size[1] = 0 \/ size[2] = 0
    THEN NoImage
    ELSE [height |-> size[1], width |-> size[2]]

----------------------------------------------------------------------------
(* Detectors and their cache.  st is [instances, inits]. *)

\* cls(device) of a subclass of rp.CachedInstances: one instance per
\* (class, constructor arguments); __init__ runs only for a new instance
CachedInstances(cls, device, st) ==
    LET key == <<cls, device>> IN
    IF key \in DOMAIN st.instances
    THEN [st |-> st, instance |-> st.instances[key], device |-> device,
          constructed |-> FALSE]
    ELSE LET id == Len(st.inits) + 1 IN
         [st |-> [instances |-> (key :> id) @@ st.instances,
                  inits |-> Append(st.inits, key)],
          instance |-> id, device |-> device, constructed |-> TRUE]

\* a class with the same __init__ that does not inherit rp.CachedInstances
Uncached_UniformerDetector(device, st) ==
    LET key == <<"_UniformerDetector", device>>
        id == Len(st.inits) + 1
    IN [st |-> [instances |-> st.instances, inits |-> Append(st.inits, key)],
        instance |-> id, device |-> device, constructed |-> TRUE]

\* class _UniformerDetector(rp.CachedInstances)
_UniformerDetector(device, st) ==
    CachedInstances("_UniformerDetector", device, st)

\* UniformerDetector(device=None); auto is what rp.select_torch_device()
\* returns at this call
UniformerDetector(device, auto, st) ==
    LET dev == IF device = None THEN auto ELSE device IN
    _UniformerDetector(dev, st)

\* HEDdetector, MidasDetector, OpenposeDetector: resolve the device, then
\* construct or reuse the cached detector bound to it
HEDdetector(device, auto, st) ==
    CachedInstances("HEDdetector", IF device = None THEN auto ELSE device, st)

MidasDetector(device, auto, st) ==
    CachedInstances("MidasDetector", IF device = None THEN auto ELSE device, st)

OpenposeDetector(device, auto, st) ==
    CachedInstances("OpenposeDetector", IF device = None THEN auto ELSE device, st)

----------------------------------------------------------------------------
(* Call records *)

\* the record of a call that has not run anything yet
Entered(fn, image, device, kwargs) ==
    [fn |-> fn, image |-> image, device |-> device, kwargs |-> kwargs,
     patch_size |-> 0, outcome |-> "returned", result |-> NoImage,
     resolved |-> None, instance |-> 0, constructed |-> FALSE,
     model_image |-> NoImage, target_dims |-> NoDims, nms |-> FALSE,
     tiles |-> 0]

\* the call raised exc; nothing else changes
Raise(rec, exc, st) == [rec |-> [rec EXCEPT !.outcome = exc], st |-> st]

\* detector d was obtained and run on image; the output has the image's size
Detected(rec, d, image) ==
    [rec |-> [rec EXCEPT !.resolved = d.device, !.instance = d.instance,
                         !.constructed = d.constructed,
                         !.model_image = image, !.result = image],
     st |-> d.st]

----------------------------------------------------------------------------
(* The annotator functions.  Each takes the image, the device argument, the *)
(* keyword arguments, the device rp.select_torch_device() would pick, and   *)
(* the process state; each yields the call's record and the new state.      *)

\* run_hed with the detector obtained and run before the assertion
LateAssert_run_hed(image, device, kwargs, auto, st) ==
    LET threshold_is_None == "threshold" \notin DOMAIN kwargs
        sigma_is_None == "sigma" \notin DOMAIN kwargs
        out == Detected(Entered("run_hed", image, device, kwargs),
                        HEDdetector(device, auto, st), image)
    IN IF threshold_is_None # sigma_is_None
       THEN Raise(out.rec, "AssertionError", out.st)
       ELSE [out EXCEPT !.rec.nms = ~threshold_is_None /\ ~sigma_is_None]

run_hed(image, device, kwargs, auto, st) ==
    LET rec == Entered("run_hed", image, device, kwargs)
        threshold_is_None == "threshold" \notin DOMAIN kwargs
        sigma_is_None == "sigma" \notin DOMAIN kwargs
    IN IF threshold_is_None # sigma_is_None
       THEN Raise(rec, "AssertionError", st)
       ELSE LET out == Detected(rec, HEDdetector(device, auto, st), image) IN
            [out EXCEPT !.rec.nms = ~threshold_is_None /\ ~sigma_is_None]

run_openpose(image, device, kwargs, auto, st) ==
    Detected(Entered("run_openpose", image, device, kwargs),
             OpenposeDetector(device, auto, st), image)

\* import annotator (also: from annotator import fn, and any import of the
\* subpackage annotator.uniformer, which runs this file first): the file does
\* not compile, so the caller's call fn(image, device) is never made
import_annotator(fn, image, device, st) ==
    Raise(Entered(fn, image, device, NoKwargs), "SyntaxError", st)

\* the keywords the signatures of run_hed and run_openpose accept besides
\* image and device
Keywords(fn) ==
    CASE fn = "run_hed" -> {"threshold", "sigma"}
      [] fn = "run_openpose" -> {"hands"}

----------------------------------------------------------------------------
(* _round_to_nearest_patch_size *)

\* any() in place of all()
AnyDivisible(image, patch_size) ==
    LET dims == get_image_dimensions(image) IN
    \E i \in DOMAIN dims : dims[i] % patch_size = 0

_is_divisible_by_patch_size(image, patch_size) ==
    LET dims == get_image_dimensions(image) IN
    \A i \in DOMAIN dims : dims[i] % patch_size = 0

\* tuple(x - x % patch_size for x in original_dims)
target_dims(original_dims, patch_size) ==
    [i \in DOMAIN original_dims |->
        original_dims[i] - (original_dims[i] % patch_size)]

\* the function under the decorator, called as func(image, device, **kwargs):
\* run_midas and run_midas_normals take no keywords and share MidasDetector;
\* any other name is a stateless function returning an image of its input's size
func(fn, image, device, kwargs, auto, st) ==
    LET rec == Entered(fn, image, device, kwargs) IN
    IF DOMAIN kwargs # {}
    THEN Raise(rec, "TypeError", st)
    ELSE IF fn \in {"run_midas", "run_midas_normals"}
    THEN Detected(rec, MidasDetector(device, auto, st), image)
    ELSE [rec |-> [rec EXCEPT !.model_image = image, !.result = image],
          st |-> st]

wrapper(fn, patch_size, image, device, kwargs, auto, st) ==
    LET original_dims == get_image_dimensions(image)
        entered == [Entered(fn, image, device, kwargs)
                        EXCEPT !.patch_size = patch_size]
    IN
    IF _is_divisible_by_patch_size(image, patch_size)
    THEN LET r == func(fn, image, device, kwargs, auto, st) IN
         [r EXCEPT !.rec.patch_size = patch_size]
    ELSE
    LET target == target_dims(original_dims, patch_size)
        resized_image == cv_resize_image(image, target)
        attempted == [entered EXCEPT !.target_dims = target]
    IN
    IF resized_image = NoImage
    THEN Raise(attempted, "cv2.error", st)
    ELSE
    LET r == func(fn, resized_image, device, kwargs, auto, st)
        inner == [r.rec EXCEPT !.image = image, !.patch_size = patch_size,
                               !.target_dims = target]
    IN
    IF r.rec.outcome # "returned"
    THEN [rec |-> inner, st |-> r.st]
    ELSE
    LET back == cv_resize_image(r.rec.result, original_dims) IN
    IF back = NoImage
    THEN Raise([inner EXCEPT !.result = NoImage], "cv2.error", r.st)
    ELSE [rec |-> [inner EXCEPT !.result = back], st |-> r.st]

run_midas(image, device, kwargs, auto, st) ==
    wrapper("run_midas", MidasPatchSize, image, device, kwargs, auto, st)

run_midas_normals(image, device, kwargs, auto, st) ==
    wrapper("run_midas_normals", MidasPatchSize, image, device, kwargs, auto, st)

\* fn(image, device, **kwargs) as Python evaluates it: an unexpected keyword
\* raises TypeError before the body runs; wrapper takes any keyword
Call(fn, image, device, kwargs, auto, st) ==
    CASE fn = "run_midas" -> run_midas(image, device, kwargs, auto, st)
      [] fn = "run_midas_normals" ->
            run_midas_normals(image, device, kwargs, auto, st)
      [] ~(DOMAIN kwargs \subseteq Keywords(fn)) ->
            Raise(Entered(fn, image, device, kwargs), "TypeError", st)
      [] fn = "run_hed" -> run_hed(image, device, kwargs, auto, st)
      [] fn = "run_openpose" -> run_openpose(image, device, kwargs, auto, st)

----------------------------------------------------------------------------
(* State and actions *)

St == [instances |-> instances, inits |-> inits]

\* a finished call: its record is logged, the process state is what it left
Commit(r) ==
    /\ calls' = Append(calls, r.rec)
    /\ instances' = r.st.instances
    /\ inits' = r.st.inits

Init ==
    /\ instances = [k \in {} |-> 0]
    /\ inits = <<>>
    /\ calls = <<>>

\* the image of the calls whose image plays no part (it takes the resize path)
SampleImage == [height |-> MaxDim, width |-> MaxDim]

HedKwargs ==
    {NoKwargs, [threshold |-> 10], [sigma |-> 5], [threshold |-> 0, sigma |-> 5]}

OpenposeKwargs == {NoKwargs, [hands |-> TRUE]}

(* Repeated calls of the definitions that compile: the detector cache *)

Call_run_hed ==
    /\ Len(calls) < MaxCalls
    /\ \E device \in DeviceArgs, kwargs \in HedKwargs, auto \in Devices :
          Commit(Call("run_hed", SampleImage, device, kwargs, auto, St))

Call_run_openpose ==
    /\ Len(calls) < MaxCalls
    /\ \E device \in DeviceArgs, kwargs \in OpenposeKwargs, auto \in Devices :
          Commit(Call("run_openpose", SampleImage, device, kwargs, auto, St))

Call_run_midas ==
    /\ Len(calls) < MaxCalls
    /\ \E device \in DeviceArgs, auto \in Devices :
          Commit(Call("run_midas", SampleImage, device, NoKwargs, auto, St))

Call_run_midas_normals ==
    /\ Len(calls) < MaxCalls
    /\ \E device \in DeviceArgs, auto \in Devices :
          Commit(Call("run_midas_normals", SampleImage, device, NoKwargs,
                      auto, St))

\* annotator.uniformer.UniformerDetector(device) called directly: the
\* detector is obtained and not run
Call_UniformerDetector ==
    /\ Len(calls) < MaxCalls
    /\ \E device \in DeviceArgs, auto \in Devices :
          LET d == UniformerDetector(device, auto, St)
              rec == Entered("UniformerDetector", NoImage, device, NoKwargs)
          IN Commit([rec |-> [rec EXCEPT !.resolved = d.device,
                                         !.instance = d.instance,
                                         !.constructed = d.constructed],
                     st |-> d.st])

Next ==
    \/ Call_run_hed
    \/ Call_run_openpose
    \/ Call_run_midas
    \/ Call_run_midas_normals
    \/ Call_UniformerDetector

Spec == Init /\ [][Next]_vars

(* One call of a decorated function on any image, on an empty cache *)

Wrapped_run_midas ==
    /\ calls = <<>>
    /\ \E image \in Images, device \in DeviceArgs, auto \in Devices :
          Commit(Call("run_midas", image, device, NoKwargs, auto, St))

Wrapped_run_midas_normals ==
    /\ calls = <<>>
    /\ \E image \in Images, device \in DeviceArgs, auto \in Devices :
          Commit(Call("run_midas_normals", image, device, NoKwargs, auto, St))

\* _round_to_nearest_patch_size(patch_size) on a function of its own
Wrapped_func ==
    /\ calls = <<>>
    /\ \E patch_size \in 1..MaxPatch, image \in Images :
          Commit(wrapper("func", patch_size, image, None, NoKwargs, None, St))

PatchNext ==
    \/ Wrapped_run_midas
    \/ Wrapped_run_midas_normals
    \/ Wrapped_func

SpecPatch == Init /\ [][PatchNext]_vars

----------------------------------------------------------------------------
(* The package as written *)

\* what a caller may try to reach through the package
EntryPoints ==
    {"run_hed", "run_midas", "run_midas_normals", "run_openpose",
     "run_uniformer", "run_annotator_demo", "UniformerDetector"}

\* the caller imports the package to call fn(image, device); every attempt
\* ends in the import's SyntaxError
Import_annotator ==
    /\ Len(calls) < MaxCalls
    /\ \E fn \in EntryPoints, device \in DeviceArgs :
          Commit(import_annotator(fn, SampleImage, device, St))

PackageNext == Import_annotator

SpecPackage == Init /\ [][PackageNext]_vars

----------------------------------------------------------------------------
(* Properties *)

IsUniformerCall(i) == calls[i].fn = "UniformerDetector"

\* the calls made through the decorator's wrapper
IsWrappedCall(i) == calls[i].patch_size > 0

Abs(n) == IF n < 0 THEN -n ELSE n

\* C1: over any sequence of calls, _UniformerDetector.__init__ runs at most
\* once per device, and a later UniformerDetector call on the same device gets
\* the instance the earlier call got, without constructing anything.
C1_OneUniformerPerDevice ==
    /\ \A d \in Devices :
          Cardinality({i \in DOMAIN inits :
                          inits[i] = <<"_UniformerDetector", d>>}) <= 1
    /\ \A i, j \in DOMAIN calls :
          (i < j /\ IsUniformerCall(i) /\ IsUniformerCall(j)
                 /\ calls[i].resolved = calls[j].resolved)
          => /\ calls[j].instance = calls[i].instance
             /\ ~calls[j].constructed

\* two UniformerDetector calls ended up on the same device
C1_Witness ==
    \E i, j \in DOMAIN calls :
        /\ i < j /\ IsUniformerCall(i) /\ IsUniformerCall(j)
        /\ calls[i].resolved = calls[j].resolved
        /\ calls[i].constructed

\* C2: once the first UniformerDetector call named a device d, every later
\* UniformerDetector call that omits the device gets the detector bound to d
\* and constructs no detector.
C2_DeviceOnlyOnFirstCall ==
    \A i, j \in DOMAIN calls :
        (/\ i < j /\ IsUniformerCall(i) /\ IsUniformerCall(j)
         /\ \A k \in 1..(i - 1) : ~IsUniformerCall(k)
         /\ calls[i].device # None
         /\ calls[j].device = None)
        => /\ calls[j].resolved = calls[i].device
           /\ calls[j].instance = calls[i].instance
           /\ ~calls[j].constructed

\* C3: every call of a decorated function returns, and its result has the
\* dimensions of the image the caller passed.
C3_ResultHasOriginalDimensions ==
    \A i \in DOMAIN calls :
        IsWrappedCall(i)
        => /\ calls[i].outcome = "returned"
           /\ get_image_dimensions(calls[i].result)
                = get_image_dimensions(calls[i].image)

\* C4: whenever the wrapper runs the decorated function, the image it hands
\* over has its height and its width divisible by the patch size.
C4_ModelImageDivisible ==
    \A i \in DOMAIN calls :
        (IsWrappedCall(i) /\ calls[i].model_image # NoImage)
        => /\ calls[i].model_image.height % calls[i].patch_size = 0
           /\ calls[i].model_image.width % calls[i].patch_size = 0

\* an image that was not divisible was resized and handed over
C4_Witness ==
    \E i \in DOMAIN calls :
        /\ IsWrappedCall(i)
        /\ ~_is_divisible_by_patch_size(calls[i].image, calls[i].patch_size)
        /\ calls[i].model_image # NoImage
        /\ calls[i].model_image # calls[i].image

\* C5: each target dimension the wrapper computes is a multiple of the patch
\* size that is at least as close to the original dimension as any other
\* (read on the calls whose resize to the target was carried out).
C5_TargetIsNearestMultiple ==
    \A i \in DOMAIN calls :
        (calls[i].target_dims # NoDims /\ calls[i].model_image # NoImage)
        => LET x == get_image_dimensions(calls[i].image)
               t == calls[i].target_dims
               p == calls[i].patch_size
           IN \A n \in DOMAIN t :
                 /\ t[n] % p = 0
                 /\ \A k \in 0..(MaxDim + 1) :
                       Abs(x[n] - t[n]) <= Abs(x[n] - k * p)

\* C6: a run_hed call with exactly one of threshold and sigma raises
\* AssertionError having obtained, run and cached no detector; a call with
\* both or neither passes the assertion and returns.
C6_HedAssertsBeforeDetector ==
    [][(/\ Len(calls') = Len(calls) + 1
        /\ calls'[Len(calls')].fn = "run_hed")
       => LET c == calls'[Len(calls')]
              one == ("threshold" \in DOMAIN c.kwargs)
                        # ("sigma" \in DOMAIN c.kwargs)
          IN IF one
             THEN /\ c.outcome = "AssertionError"
                  /\ c.instance = 0
                  /\ c.model_image = NoImage
                  /\ instances' = instances
                  /\ inits' = inits
             ELSE c.outcome = "returned"]_vars

\* one run_hed call failed the assertion and another passed it with both given
C6_Witness ==
    \E i, j \in DOMAIN calls :
        /\ calls[i].fn = "run_hed" /\ calls[i].outcome = "AssertionError"
        /\ DOMAIN calls[i].kwargs = {"sigma"}
        /\ calls[j].fn = "run_hed" /\ calls[j].outcome = "returned"
        /\ calls[j].nms

\* C7: run_annotator_demo(), reached through the package as it is, returns
\* having collected twelve tiles for each of the three default images.
C7_DemoRunsAsIs ==
    \A i \in DOMAIN calls :
        calls[i].fn = "run_annotator_demo"
        => /\ calls[i].outcome = "returned"
           /\ calls[i].tiles = DemoTiles * DefaultImages

\* C8: for an image of height and width at least 1, the target the wrapper
\* computes, and the image it hands to the decorated function, have height
\* and width at least 1.
C8_TargetNotEmpty ==
    \A i \in DOMAIN calls :
        (/\ IsWrappedCall(i)
         /\ calls[i].image.height >= 1
         /\ calls[i].image.width >= 1)
        => /\ calls[i].target_dims # NoDims
                => \A n \in DOMAIN calls[i].target_dims :
                      calls[i].target_dims[n] >= 1
           /\ calls[i].model_image # NoImage
                => /\ calls[i].model_image.height >= 1
                   /\ calls[i].model_image.width >= 1

=============================================================================
